---- MODULE Spec2Model ----
(***************************************************************************)
(* Model of replit_mcp_server.py: the POST /mcp JSON-RPC endpoint          *)
(* (mcp_endpoint), the three tool handlers (execute_tool) and the two      *)
(* process-wide collections workflow_sessions and workflow_memory.         *)
(*                                                                         *)
(* JSON values are records [t, v]: t is the JSON type and v the text that  *)
(* Python's str() gives for the value.  A key that is missing from a JSON  *)
(* object is the value Absent; dict.get turns it into its default.         *)
(* The confirmation texts are modelled by the fields they interpolate;    *)
(* the 150-character preview of the content is not part of the model.      *)
(***************************************************************************)
EXTENDS Integers, Sequences, FiniteSets

VARIABLES workflow_sessions, workflow_memory, pc, exchange

vars == <<workflow_sessions, workflow_memory, pc, exchange>>

(***************************************************************************)
(* Bounds                                                                  *)
(***************************************************************************)
\* cap on len(workflow_memory), which the program lets grow without limit
MaxMemory == 2
\* number of HTTP clients that may have a POST /mcp request in flight
NumClients == 2

Clients == 1..NumClients

(***************************************************************************)
(* JSON values                                                             *)
(***************************************************************************)
JStr(s) == [t |-> "str", v |-> s]
JNum(s) == [t |-> "num", v |-> s]
JTrue == [t |-> "bool", v |-> "True"]
JFalse == [t |-> "bool", v |-> "False"]
\* Python None: JSON null, and what dict.get returns for a missing key
JNull == [t |-> "null", v |-> "None"]
\* marker of a key that the JSON object does not contain
Absent == [t |-> "absent", v |-> ""]

\* dict.get(key, default)
Get(field, default) == IF field.t = "absent" THEN default ELSE field

\* f"{value}": the text an f-string interpolates for a value
Format(value) == value.v

\* Python truthiness, as used by `if detailed:`
Truthy(value) ==
    CASE value.t = "bool" -> value.v = "True"
      [] value.t = "null" -> FALSE
      [] value.t = "str" -> value.v # ""
      [] value.t = "num" -> value.v # "0"
      [] OTHER -> TRUE

\* str.title() on the importance labels
Title(s) ==
    CASE s = "low" -> "Low"
      [] s = "medium" -> "Medium"
      [] s = "high" -> "High"
      [] OTHER -> s

(***************************************************************************)
(* Program constants                                                       *)
(***************************************************************************)
MCP_PROTOCOL_VERSION == "2024-11-05"
SERVER_INFO == [name |-> "ai-workflow-continuity-system", version |-> "1.0.0"]
TOOLS == <<"create_workflow_session", "save_workflow_memory", "check_continuity_status">>
METHOD_NOT_FOUND == -32601
INTERNAL_ERROR == -32603
HTTP_OK == 200
HTTP_INTERNAL_SERVER_ERROR == 500

(***************************************************************************)
(* Inputs: the values uuid4 and datetime.now can return, and the request   *)
(* bodies a client can send                                                *)
(***************************************************************************)
\* str(uuid.uuid4())[:8]: eight hexadecimal digits of a random UUID
Uuids == {"1c9a4e2f", "b07d53a8"}
\* datetime.now().isoformat(); one instant, since a timestamp is only stored
Timestamps == {"2025-01-01T10:00:00"}

\* arguments object of a tools/call; t = "absent" when params has no
\* "arguments" key, t = "null" when it is JSON null (not an object)
Arguments(t, session_name, purpose, content, importance, detailed) ==
    [t |-> t, session_name |-> session_name, purpose |-> purpose,
     content |-> content, importance |-> importance, detailed |-> detailed]

EmptyArguments == Arguments("object", Absent, Absent, Absent, Absent, Absent)
AbsentArguments == Arguments("absent", Absent, Absent, Absent, Absent, Absent)
NullArguments == Arguments("null", Absent, Absent, Absent, Absent, Absent)

SessionArguments ==
    {EmptyArguments,
     Arguments("object", JStr("alpha"), Absent, Absent, Absent, Absent),
     Arguments("object", JStr("alpha"), JStr("research"), Absent, Absent, Absent)}

MemoryArguments ==
    {EmptyArguments,
     Arguments("object", Absent, Absent, JStr("hello"), Absent, Absent),
     Arguments("object", Absent, Absent, JStr("hello"), JStr("low"), Absent),
     Arguments("object", Absent, Absent, JStr("hello"), JNum("7"), Absent)}

StatusArguments ==
    {EmptyArguments,
     Arguments("object", Absent, Absent, Absent, Absent, JTrue),
     Arguments("object", Absent, Absent, Absent, Absent, JFalse)}

\* params of a request; t as for the arguments
Params(t, name, arguments) == [t |-> t, name |-> name, arguments |-> arguments]

EmptyParams == Params("object", Absent, AbsentArguments)
AbsentParams == Params("absent", Absent, AbsentArguments)
NullParams == Params("null", Absent, AbsentArguments)

ToolParams ==
    {NullParams, AbsentParams}
    \cup {Params("object", n, AbsentArguments) : n \in {Absent, JStr("delete_everything")}}
    \cup {Params("object", JStr("create_workflow_session"), a) :
            a \in SessionArguments \cup {AbsentArguments, NullArguments}}
    \cup {Params("object", JStr("save_workflow_memory"), a) :
            a \in MemoryArguments \cup {AbsentArguments, NullArguments}}
    \cup {Params("object", JStr("check_continuity_status"), a) :
            a \in StatusArguments \cup {AbsentArguments, NullArguments}}

\* request body; t = "object" for a JSON object, "array" for JSON that is
\* not an object, "malformed" for a body that is not JSON
Body(t, jsonrpc, method, params, id) ==
    [t |-> t, jsonrpc |-> jsonrpc, method |-> method, params |-> params, id |-> id]

Versions == {Absent, JStr("1.0")}
Ids == {Absent, JNum("7")}
\* the jsonrpc and id members of the tools/call requests
Envelopes == {<<Absent, Absent>>, <<JStr("1.0"), JNum("7")>>}

Bodies ==
    {Body("malformed", Absent, Absent, AbsentParams, Absent),
     Body("array", Absent, Absent, AbsentParams, Absent)}
    \cup {Body("object", j, m, AbsentParams, i) :
            j \in Versions, i \in Ids,
            m \in {Absent, JStr("initialize"), JStr("tools/list"), JStr("resources/list")}}
    \cup {Body("object", Absent, JStr("initialize"), NullParams, JNum("7"))}
    \cup {Body("object", e[1], JStr("tools/call"), p, e[2]) :
            e \in Envelopes, p \in ToolParams}

\* the requests of the concurrent scenario
ConcurrentBodies ==
    {Body("object", JStr("2.0"), JStr("tools/call"), p, JNum("7")) :
        p \in {Params("object", JStr("save_workflow_memory"), a) :
                  a \in MemoryArguments \ {EmptyArguments}}
           \cup {Params("object", JStr("check_continuity_status"), AbsentArguments),
                 Params("object", JStr("create_workflow_session"),
                        Arguments("object", JStr("alpha"), Absent, Absent, Absent, Absent))}}

(***************************************************************************)
(* Responses of POST /mcp                                                  *)
(***************************************************************************)
NoResult == [form |-> "none"]
NoMessage == [text |-> "", arg |-> ""]

Response(status_code, jsonrpc, id, kind, code, message, result) ==
    [status_code |-> status_code, jsonrpc |-> jsonrpc, id |-> id, kind |-> kind,
     code |-> code, message |-> message, result |-> result]

\* {"jsonrpc": jsonrpc, "id": request_id, "result": result}
Success(jsonrpc, request_id, result) ==
    Response(HTTP_OK, jsonrpc, request_id, "result", 0, NoMessage, result)

\* bug: the unknown method is reported through the internal-error path
MethodNotFound_AsInternal(jsonrpc, request_id, method) ==
    Response(HTTP_INTERNAL_SERVER_ERROR, jsonrpc, request_id, "error", INTERNAL_ERROR,
             [text |-> "Method not found: ", arg |-> Format(method)], NoResult)

\* the else branch of the method dispatch
MethodNotFound(jsonrpc, request_id, method) ==
    Response(HTTP_OK, jsonrpc, request_id, "error", METHOD_NOT_FOUND,
             [text |-> "Method not found: ", arg |-> Format(method)], NoResult)

\* bug: the except branch never echoes the request's id
InternalError_NullId(request_id, message) ==
    Response(HTTP_INTERNAL_SERVER_ERROR, JStr("2.0"), JNull, "error",
             INTERNAL_ERROR, message, NoResult)

\* the except branch; request_id is JNull when the name is not yet bound
InternalError(request_id, message) ==
    Response(HTTP_INTERNAL_SERVER_ERROR, JStr("2.0"), request_id, "error",
             INTERNAL_ERROR, message, NoResult)

(***************************************************************************)
(* Exceptions, by the text of str(e)                                       *)
(***************************************************************************)
PyType(value) ==
    CASE value.t = "null" -> "NoneType"
      [] value.t = "str" -> "str"
      [] value.t = "num" -> "int"
      [] value.t = "bool" -> "bool"
      [] value.t = "array" -> "list"
      [] OTHER -> "dict"

JSONDecodeError == [text |-> "Expecting value", arg |-> ""]
NoAttribute(value, attr) == [text |-> "object has no attribute " \o attr, arg |-> PyType(value)]
NotSubscriptable(value) == [text |-> "object is not subscriptable", arg |-> PyType(value)]
UnknownTool(tool_name) == [text |-> "Unknown tool: ", arg |-> Format(tool_name)]

(***************************************************************************)
(* execute_tool                                                            *)
(***************************************************************************)
\* what a call of execute_tool leaves behind: the value it returns or the
\* exception it raises, and the two collections as it leaves them
Returned(result, sessions, memory) ==
    [raised |-> FALSE, message |-> NoMessage, result |-> result,
     sessions |-> sessions, memory |-> memory]

Raised(message, sessions, memory) ==
    [raised |-> TRUE, message |-> message, result |-> NoResult,
     sessions |-> sessions, memory |-> memory]

\* workflow_sessions[session_id] = session
SessionInsert(sessions, session_id, session) ==
    [k \in DOMAIN sessions \cup {session_id} |->
        IF k = session_id THEN session ELSE sessions[k]]

\* bug: an item whose id is already in the list is not stored again
MemoryAppend_Dedup(memory, item) ==
    IF \E i \in 1..Len(memory) : memory[i].id = item.id
    THEN memory ELSE Append(memory, item)

\* workflow_memory.append(item)
MemoryAppend(memory, item) == Append(memory, item)

\* the confirmation text of create_workflow_session
CreatedText(session_name, purpose, session_id) ==
    [form |-> "session_created", name |-> Format(session_name),
     purpose |-> Format(purpose), session_id |-> session_id]

\* bug: the total is the count taken before the append
SavedText_Stale(importance, memory_id, memory) ==
    [form |-> "memory_saved", importance |-> Title(importance.v),
     memory_id |-> memory_id, total |-> Len(memory) - 1]

\* the confirmation text of save_workflow_memory
SavedText(importance, memory_id, memory) ==
    [form |-> "memory_saved", importance |-> Title(importance.v),
     memory_id |-> memory_id, total |-> Len(memory)]

\* bug: the two counts are interpolated in each other's place
StatusText_Swapped(detailed, sessions, memory) ==
    [form |-> "status", metrics |-> Truthy(detailed),
     sessions |-> Len(memory), memory |-> Cardinality(DOMAIN sessions)]

\* the status text of check_continuity_status, verbose or one line
StatusText(detailed, sessions, memory) ==
    [form |-> "status", metrics |-> Truthy(detailed),
     sessions |-> Cardinality(DOMAIN sessions), memory |-> Len(memory)]

create_workflow_session(arguments, uuid, now) ==
    LET session_name == Get(arguments.session_name, JNull)
        purpose == Get(arguments.purpose, JStr("General"))
        session_id == uuid
        session == [name |-> session_name, purpose |-> purpose,
                    created_at |-> now, status |-> "active"]
    IN  Returned(CreatedText(session_name, purpose, session_id),
                 SessionInsert(workflow_sessions, session_id, session),
                 workflow_memory)

save_workflow_memory(arguments, uuid, now) ==
    LET content == Get(arguments.content, JNull)
        importance == Get(arguments.importance, JStr("medium"))
        memory_id == uuid
        item == [id |-> memory_id, content |-> content,
                 importance |-> importance, saved_at |-> now]
        memory == MemoryAppend(workflow_memory, item)
    IN  \* the item is appended before the text is formatted
        IF content.t # "str"
        THEN Raised(NotSubscriptable(content), workflow_sessions, memory)
        ELSE IF importance.t # "str"
        THEN Raised(NoAttribute(importance, "title"), workflow_sessions, memory)
        ELSE Returned(SavedText(importance, memory_id, memory),
                      workflow_sessions, memory)

check_continuity_status(arguments) ==
    LET detailed == Get(arguments.detailed, JTrue)
    IN  Returned(StatusText(detailed, workflow_sessions, workflow_memory),
                 workflow_sessions, workflow_memory)

execute_tool(tool_name, arguments, uuid, now) ==
    IF tool_name \in {JStr(TOOLS[1]), JStr(TOOLS[2]), JStr(TOOLS[3])}
    THEN IF arguments.t # "object"
         THEN \* arguments.get on a value that is no dict
              Raised(NoAttribute(arguments, "get"), workflow_sessions, workflow_memory)
         ELSE CASE tool_name = JStr("create_workflow_session") ->
                       create_workflow_session(arguments, uuid, now)
                [] tool_name = JStr("save_workflow_memory") ->
                       save_workflow_memory(arguments, uuid, now)
                [] OTHER -> check_continuity_status(arguments)
    ELSE Raised(UnknownTool(tool_name), workflow_sessions, workflow_memory)

(***************************************************************************)
(* mcp_endpoint: everything after `data = await request.json()`            *)
(***************************************************************************)
\* the response and the two collections as the request leaves them
Handled(response, sessions, memory) ==
    [response |-> response, sessions |-> sessions, memory |-> memory]

tools_call(jsonrpc, request_id, params, uuid, now) ==
    IF params.t # "object"
    THEN Handled(InternalError(request_id, NoAttribute(params, "get")),
                 workflow_sessions, workflow_memory)
    ELSE LET tool_name == Get(params.name, JNull)
             arguments == IF params.arguments.t = "absent"
                          THEN EmptyArguments ELSE params.arguments
             out == execute_tool(tool_name, arguments, uuid, now)
         IN  IF out.raised
             THEN Handled(InternalError(request_id, out.message),
                          out.sessions, out.memory)
             ELSE Handled(Success(jsonrpc, request_id, out.result),
                          out.sessions, out.memory)

mcp_endpoint(body, uuid, now) ==
    IF body.t = "malformed"
    THEN Handled(InternalError(JNull, JSONDecodeError),
                 workflow_sessions, workflow_memory)
    ELSE IF body.t # "object"
    THEN Handled(InternalError(JNull, NoAttribute(body, "get")),
                 workflow_sessions, workflow_memory)
    ELSE LET jsonrpc == Get(body.jsonrpc, JStr("2.0"))
             method == Get(body.method, JNull)
             params == IF body.params.t = "absent" THEN EmptyParams ELSE body.params
             request_id == Get(body.id, JNull)
         IN  CASE method = JStr("initialize") ->
                    Handled(Success(jsonrpc, request_id,
                                    [form |-> "initialize",
                                     protocolVersion |-> MCP_PROTOCOL_VERSION,
                                     serverInfo |-> SERVER_INFO]),
                            workflow_sessions, workflow_memory)
               [] method = JStr("tools/list") ->
                    Handled(Success(jsonrpc, request_id,
                                    [form |-> "tools", tools |-> TOOLS]),
                            workflow_sessions, workflow_memory)
               [] method = JStr("tools/call") ->
                    tools_call(jsonrpc, request_id, params, uuid, now)
               [] OTHER ->
                    Handled(MethodNotFound(jsonrpc, request_id, method),
                            workflow_sessions, workflow_memory)

(***************************************************************************)
(* The state machine                                                       *)
(***************************************************************************)
NoBody == Body("none", Absent, Absent, AbsentParams, Absent)
NoResponse == Response(0, Absent, Absent, "none", 0, NoMessage, NoResult)
NoExchange == [request |-> NoBody, response |-> NoResponse]

Init ==
    /\ workflow_sessions = [k \in {} |-> JNull]
    /\ workflow_memory = <<>>
    /\ pc = [c \in Clients |-> "idle"]
    /\ exchange = [c \in Clients |-> NoExchange]

\* a client's POST /mcp reaches the handler, which suspends in request.json()
Receive(c) ==
    /\ pc[c] = "idle"
    /\ pc' = [pc EXCEPT ![c] = "reading"]
    /\ UNCHANGED <<workflow_sessions, workflow_memory, exchange>>

\* the body has been read: the rest of mcp_endpoint runs without suspending
Dispatch(c, body, uuid, now) ==
    /\ pc[c] = "reading"
    /\ LET out == mcp_endpoint(body, uuid, now)
       IN  /\ Len(out.memory) <= MaxMemory
           /\ workflow_sessions' = out.sessions
           /\ workflow_memory' = out.memory
           /\ exchange' = [exchange EXCEPT ![c] =
                              [request |-> body, response |-> out.response]]
    /\ pc' = [pc EXCEPT ![c] = "replying"]

\* the response has gone out and the client may send its next request
Respond(c) ==
    /\ pc[c] = "replying"
    /\ pc' = [pc EXCEPT ![c] = "idle"]
    /\ exchange' = [exchange EXCEPT ![c] = NoExchange]
    /\ UNCHANGED <<workflow_sessions, workflow_memory>>

\* any request, served one after the other (client 1 sends them all): a
\* request touches the collections only in Dispatch, which never suspends
Next ==
    \/ Receive(1)
    \/ \E body \in Bodies, uuid \in Uuids, now \in Timestamps :
          Dispatch(1, body, uuid, now)
    \/ Respond(1)

Spec == Init /\ [][Next]_vars

\* every client sends one tool call into a fresh process, in any interleaving
ConcurrentNext ==
    \/ \E c \in Clients : Receive(c)
    \/ \E c \in Clients, body \in ConcurrentBodies, uuid \in Uuids,
          now \in Timestamps :
          Dispatch(c, body, uuid, now)

ConcurrentSpec == Init /\ [][ConcurrentNext]_vars

(***************************************************************************)
(* Vocabulary of the properties                                            *)
(***************************************************************************)
\* the step in which client c's request is dispatched and answered
Dispatched(c) == pc[c] = "reading" /\ pc'[c] = "replying"

\* client c holds the answer to its request
Answered(c) == pc[c] = "replying"

\* the request is a tools/call whose params object names the tool
CallsTool(request, tool) ==
    /\ request.t = "object"
    /\ request.method = JStr("tools/call")
    /\ request.params.t = "object"
    /\ request.params.name = JStr(tool)

\* the arguments reach the handler as an object ({} when the key is missing)
ArgumentsAreObject(request) == request.params.arguments.t \in {"object", "absent"}

\* the id a response must carry: the request's, null when there is none
EchoedId(request) ==
    IF request.t = "object" /\ request.id # Absent THEN request.id ELSE JNull

\* the requests whose dispatch raises: a body that is no JSON object, and a
\* tools/call with params that is no object, with a missing or unknown
\* tool name, with arguments that is no object, or with a content or an
\* importance that save_workflow_memory cannot format
DispatchFails(request) ==
    \/ request.t # "object"
    \/ /\ request.method = JStr("tools/call")
       /\ \/ request.params.t = "null"
          \/ request.params.name \notin
                {JStr("create_workflow_session"), JStr("save_workflow_memory"),
                 JStr("check_continuity_status")}
          \/ request.params.arguments.t = "null"
          \/ /\ request.params.name = JStr("save_workflow_memory")
             /\ \/ request.params.arguments.content.t # "str"
                \/ request.params.arguments.importance.t \notin {"str", "absent"}

IsInternalError(response) ==
    /\ response.kind = "error"
    /\ response.code = -32603
    /\ response.status_code = 500

Unchanged == UNCHANGED <<workflow_sessions, workflow_memory>>

(***************************************************************************)
(* Properties                                                              *)
(***************************************************************************)
\* C1: a tools/call that is answered with an error envelope leaves the
\* session collection and the memory list exactly as they were.
C1_AllOrNothing ==
    [][\A c \in Clients :
          (/\ Dispatched(c)
           /\ exchange'[c].request.t = "object"
           /\ exchange'[c].request.method = JStr("tools/call")
           /\ exchange'[c].response.kind = "error")
          => Unchanged]_vars

\* C2: create_workflow_session called with arguments that hold no
\* session_name is answered with error -32603, HTTP 500, and inserts nothing.
C2_MissingNameFails ==
    [][\A c \in Clients :
          (/\ Dispatched(c)
           /\ CallsTool(exchange'[c].request, "create_workflow_session")
           /\ exchange'[c].request.params.arguments.session_name = Absent)
          => /\ IsInternalError(exchange'[c].response)
             /\ UNCHANGED workflow_sessions]_vars

\* C3: create_workflow_session called with a non-empty session_name makes
\* the session collection one larger, and the identifier in the confirmation
\* is a key of the collection afterward.
C3_CreateAddsOne ==
    [][\A c \in Clients :
          (/\ Dispatched(c)
           /\ CallsTool(exchange'[c].request, "create_workflow_session")
           /\ ArgumentsAreObject(exchange'[c].request)
           /\ exchange'[c].request.params.arguments.session_name.t = "str"
           /\ exchange'[c].request.params.arguments.session_name.v # "")
          => /\ Cardinality(DOMAIN workflow_sessions')
                  = Cardinality(DOMAIN workflow_sessions) + 1
             /\ exchange'[c].response.kind = "result"
             /\ exchange'[c].response.result.form = "session_created"
             /\ exchange'[c].response.result.session_id \in DOMAIN workflow_sessions']_vars

\* C4: save_workflow_memory called with a string content makes the memory
\* list one longer; it is confirmed when the importance is a string or
\* missing, and the total in a confirmation is the length after the append.
C4_SaveAppendsOne ==
    [][\A c \in Clients :
          (/\ Dispatched(c)
           /\ CallsTool(exchange'[c].request, "save_workflow_memory")
           /\ ArgumentsAreObject(exchange'[c].request)
           /\ exchange'[c].request.params.arguments.content.t = "str")
          => /\ Len(workflow_memory') = Len(workflow_memory) + 1
             /\ exchange'[c].request.params.arguments.importance.t \in {"str", "absent"}
                  => exchange'[c].response.kind = "result"
             /\ exchange'[c].response.kind = "result"
                  => /\ exchange'[c].response.result.form = "memory_saved"
                     /\ exchange'[c].response.result.total = Len(workflow_memory')]_vars

\* C4 witness: the second save of a process has been confirmed with total 2.
C4_Witness ==
    \E c \in Clients :
        /\ Answered(c)
        /\ CallsTool(exchange[c].request, "save_workflow_memory")
        /\ exchange[c].request.params.arguments.content = JStr("hello")
        /\ exchange[c].response.kind = "result"
        /\ exchange[c].response.result.total = 2
        /\ Len(workflow_memory) = 2

\* C5: check_continuity_status changes neither collection, and with
\* detailed true, false or missing it reports the sizes of the two
\* collections at the call, with the metric block unless detailed is false.
C5_StatusReadsOnly ==
    [][\A c \in Clients :
          (/\ Dispatched(c)
           /\ CallsTool(exchange'[c].request, "check_continuity_status"))
          => /\ Unchanged
             /\ ArgumentsAreObject(exchange'[c].request)
                  => /\ exchange'[c].response.kind = "result"
                     /\ exchange'[c].response.result.form = "status"
                     /\ exchange'[c].response.result.sessions
                          = Cardinality(DOMAIN workflow_sessions)
                     /\ exchange'[c].response.result.memory = Len(workflow_memory)
                     /\ exchange'[c].response.result.metrics
                          = (exchange'[c].request.params.arguments.detailed # JFalse)]_vars

\* C5 witness: the one-line status has been returned with one session and
\* two memory items stored.
C5_Witness ==
    \E c \in Clients :
        /\ Answered(c)
        /\ CallsTool(exchange[c].request, "check_continuity_status")
        /\ exchange[c].request.params.arguments.detailed = JFalse
        /\ exchange[c].response.kind = "result"
        /\ ~exchange[c].response.result.metrics
        /\ exchange[c].response.result.sessions = 1
        /\ exchange[c].response.result.memory = 2

\* C6: a JSON-object request whose method is none of initialize, tools/list
\* and tools/call (or is missing) is answered with error -32601 naming the
\* method, HTTP 200, and changes neither collection.
C6_MethodNotFound ==
    [][\A c \in Clients :
          (/\ Dispatched(c)
           /\ exchange'[c].request.t = "object"
           /\ exchange'[c].request.method \notin
                {JStr("initialize"), JStr("tools/list"), JStr("tools/call")})
          => /\ exchange'[c].response.kind = "error"
             /\ exchange'[c].response.code = -32601
             /\ exchange'[c].response.status_code = 200
             /\ exchange'[c].response.message.arg
                  = (IF exchange'[c].request.method = Absent
                     THEN "None" ELSE exchange'[c].request.method.v)
             /\ Unchanged]_vars

\* C6 witness: resources/list has been refused while records are stored.
C6_Witness ==
    \E c \in Clients :
        /\ Answered(c)
        /\ exchange[c].request.method = JStr("resources/list")
        /\ exchange[c].response.code = -32601
        /\ exchange[c].response.message.arg = "resources/list"
        /\ DOMAIN workflow_sessions # {}
        /\ Len(workflow_memory) > 0

\* C7: every request whose dispatch raises is answered with error -32603,
\* HTTP 500, and every such answer carries the request's id when the body
\* is a JSON object and null otherwise.
C7_InternalErrorEchoesId ==
    \A c \in Clients :
        Answered(c) =>
            /\ DispatchFails(exchange[c].request)
                 => exchange[c].response.code = -32603
            /\ exchange[c].response.code = -32603
                 => /\ IsInternalError(exchange[c].response)
                    /\ exchange[c].response.id = EchoedId(exchange[c].request)

\* C7 witness: a call of an unknown tool with id 7 has been answered with
\* error -32603 and id 7.
C7_Witness ==
    \E c \in Clients :
        /\ Answered(c)
        /\ exchange[c].request.params.name = JStr("delete_everything")
        /\ exchange[c].request.id = JNum("7")
        /\ IsInternalError(exchange[c].response)
        /\ exchange[c].response.id = JNum("7")

\* C8: every response carries the jsonrpc value of the request, or "2.0"
\* when the request has none.
C8_JsonrpcEchoed ==
    \A c \in Clients :
        Answered(c) =>
            exchange[c].response.jsonrpc
              = (IF exchange[c].request.t = "object" /\ exchange[c].request.jsonrpc # Absent
                 THEN exchange[c].request.jsonrpc ELSE JStr("2.0"))

\* C9: records are only ever added: a stored session stays stored with the
\* same name, purpose, creation timestamp and status, and the memory list
\* of a state is a prefix of the memory list of the next.
C9_RecordsOnlyAdded ==
    [][/\ \A k \in DOMAIN workflow_sessions :
             /\ k \in DOMAIN workflow_sessions'
             /\ workflow_sessions'[k] = workflow_sessions[k]
       /\ Len(workflow_memory') >= Len(workflow_memory)
       /\ SubSeq(workflow_memory', 1, Len(workflow_memory)) = workflow_memory]_vars

\* the clients whose request saves a string content
StringSavers ==
    {c \in Clients :
        /\ Answered(c)
        /\ CallsTool(exchange[c].request, "save_workflow_memory")
        /\ exchange[c].request.params.arguments.content.t = "str"}

\* the clients whose save has been confirmed
Confirmed ==
    {c \in Clients :
        /\ Answered(c)
        /\ exchange[c].response.kind = "result"
        /\ exchange[c].response.result.form = "memory_saved"}

\* C10: in every interleaving of concurrent requests no two confirmed saves
\* report the same total, and once all requests are answered the memory
\* list holds one item for each save of a string content.
C10_ConcurrentSavesAtomic ==
    /\ \A c1, c2 \in Confirmed :
          c1 # c2 => exchange[c1].response.result.total
                        # exchange[c2].response.result.total
    /\ (\A c \in Clients : Answered(c))
          => Len(workflow_memory) = Cardinality(StringSavers)

\* C10 witness: every client has saved a string content and been
\* confirmed, and the list holds one item for each.
C10_Witness ==
    /\ Confirmed = Clients
    /\ StringSavers = Clients
    /\ Len(workflow_memory) = NumClients

====
